---- MODULE Spec2Model ----
(***************************************************************************)
(* Eligibility analysis of gh-slimify: the job predicates of package       *)
(* workflow (IsUbuntuLatest, HasDockerCommands, HasContainerActions,       *)
(* HasServices, HasContainer) and the scan that sorts the jobs of a        *)
(* workflow file into Candidates, IneligibleJobs and AlreadySlimJobs.      *)
(*                                                                         *)
(* A Go string is a sequence of one-character strings, so that ToLower,    *)
(* HasPrefix and the regular expressions are computed character by         *)
(* character.  An interface value (runs-on, services, container) is a      *)
(* record tagged with its dynamic type in the field kind.                  *)
(***************************************************************************)
EXTENDS Integers, Sequences, FiniteSets, TLC

VARIABLES jobs, idx, Candidates, IneligibleJobs, AlreadySlimJobs,
          missingInSlim, report

vars == <<jobs, idx, Candidates, IneligibleJobs, AlreadySlimJobs, missingInSlim, report>>

----------------------------------------------------------------------------
(* Bounds of the checked instances.                                        *)

\* longest runs-on sequence
MaxLabels == 2

\* most steps in a job
MaxSteps == 2

\* most pieces concatenated into a generated shell text
MaxPieces == 4

\* most jobs in a scanned workflow file
MaxJobs == 3

\* most tokens in a generated command line
MaxTokens == 4

----------------------------------------------------------------------------
(* Characters and strings.                                                 *)

LowerLetters ==
  <<"a", "b", "c", "d", "e", "f", "g", "h", "i", "j", "k", "l", "m", "n", "o", "p", "q", "r", "s", "t", "u", "v", "w", "x", "y", "z">>

UpperLetters ==
  <<"A", "B", "C", "D", "E", "F", "G", "H", "I", "J", "K", "L", "M", "N", "O", "P", "Q", "R", "S", "T", "U", "V", "W", "X", "Y", "Z">>

Digits ==
  <<"0", "1", "2", "3", "4", "5", "6", "7", "8", "9">>

Range(s) == {s[i] : i \in 1..Len(s)}

UpperSet == Range(UpperLetters)

\* the lower-case letter of each upper-case letter
LowerOf ==
  [c \in UpperSet |->
     LowerLetters[CHOOSE i \in 1..Len(UpperLetters) : UpperLetters[i] = c]]

\* unicode.ToLower on one ASCII character
ToLowerChar(c) == IF c \in UpperSet THEN LowerOf[c] ELSE c

\* strings.ToLower
RECURSIVE ToLower(_)
ToLower(s) ==
  IF s = <<>> THEN <<>>
  ELSE <<ToLowerChar(Head(s))>> \o ToLower(Tail(s))

\* strings.HasPrefix
HasPrefix(s, prefix) ==
  /\ Len(s) >= Len(prefix)
  /\ SubSeq(s, 1, Len(prefix)) = prefix

\* the literal lit occurs in s starting at position i
LitAt(s, i, lit) ==
  /\ i >= 1
  /\ i + Len(lit) - 1 <= Len(s)
  /\ SubSeq(s, i, i + Len(lit) - 1) = lit

\* the class \w of the regular expressions: [0-9A-Za-z_]
WordChars == Range(LowerLetters) \cup UpperSet \cup Range(Digits) \cup {"_"}

IsWordChar(c) == c \in WordChars

\* the class \s of the regular expressions: [\t\n\f\r ]
SpaceChars == {" ", "\t", "\n", "\f", "\r"}

IsSpaceChar(c) == c \in SpaceChars

\* s has a word character at position i (false outside of s)
WordAt(s, i) == i >= 1 /\ i <= Len(s) /\ IsWordChar(s[i])

\* the assertion \b between positions i-1 and i of s
WordBoundary(s, i) == WordAt(s, i - 1) /= WordAt(s, i)

----------------------------------------------------------------------------
(* The tables of package workflow.                                         *)

\* the alternation (?:build|run|exec|ps|pull|push|tag|login)
DockerSubcommands ==
  { <<"b", "u", "i", "l", "d">>, <<"r", "u", "n">>, <<"e", "x", "e", "c">>, <<"p", "s">>, <<"p", "u", "l", "l">>, <<"p", "u", "s", "h">>, <<"t", "a", "g">>, <<"l", "o", "g", "i", "n">> }

\* the subcommand pattern without its word boundaries: a substring test
MatchSubcommandNoBoundary(s, i) ==
  /\ LitAt(s, i, <<"d", "o", "c", "k", "e", "r">>)
  /\ i + 6 <= Len(s)
  /\ (IsSpaceChar(s[i + 6]) \/ s[i + 6] = "-")
  /\ \E sub \in DockerSubcommands : LitAt(s, i + 7, sub)

\* \bdocker[\s-](?:build|run|exec|ps|pull|push|tag|login)\b matches at i
MatchSubcommandAt(s, i) ==
  /\ LitAt(s, i, <<"d", "o", "c", "k", "e", "r">>)
  /\ WordBoundary(s, i)
  /\ i + 6 <= Len(s)
  /\ (IsSpaceChar(s[i + 6]) \/ s[i + 6] = "-")
  /\ \E sub \in DockerSubcommands :
       /\ LitAt(s, i + 7, sub)
       /\ WordBoundary(s, i + 7 + Len(sub))

\* \bdocker-compose\b matches at i
MatchHyphenComposeAt(s, i) ==
  /\ LitAt(s, i, <<"d", "o", "c", "k", "e", "r", "-", "c", "o", "m", "p", "o", "s", "e">>)
  /\ WordBoundary(s, i)
  /\ WordBoundary(s, i + 14)

\* \bdocker\s+compose\b matches at i
MatchSpaceComposeAt(s, i) ==
  /\ LitAt(s, i, <<"d", "o", "c", "k", "e", "r">>)
  /\ WordBoundary(s, i)
  /\ \E k \in 1..Len(s) :
       /\ \A m \in 0..(k - 1) : i + 6 + m <= Len(s) /\ IsSpaceChar(s[i + 6 + m])
       /\ LitAt(s, i + 6 + k, <<"c", "o", "m", "p", "o", "s", "e">>)
       /\ WordBoundary(s, i + 6 + k + 7)

\* containerCommandPatterns, each pattern under a name, in the order of the table
containerCommandPatterns ==
  << "docker-subcommand", "docker-hyphen-compose", "docker-space-compose" >>

\* pattern.MatchString(s): the pattern matches somewhere in s
MatchString(pattern, s) ==
  CASE pattern = "docker-subcommand" ->
         \E i \in 1..Len(s) : MatchSubcommandAt(s, i)
    [] pattern = "docker-hyphen-compose" ->
         \E i \in 1..Len(s) : MatchHyphenComposeAt(s, i)
    [] pattern = "docker-space-compose" ->
         \E i \in 1..Len(s) : MatchSpaceComposeAt(s, i)

\* containerActionPrefixes
containerActionPrefixes ==
  << <<"d", "o", "c", "k", "e", "r">> >>

----------------------------------------------------------------------------
(* Interface values and the Job type.                                      *)

\* the nil interface value
Nil == [kind |-> "nil"]

\* a string held in an interface value
StringVal(v) == [kind |-> "string", val |-> v]

\* a []any held in an interface value
SeqVal(items) == [kind |-> "seq", items |-> items]

\* a value of another dynamic type (a mapping) with the given keys
MapVal(keys) == [kind |-> "map", keys |-> keys]

----------------------------------------------------------------------------
(* package workflow: the predicates of a job.                              *)

\* the loop over the items of a runs-on sequence, from item i on
RECURSIVE AnyItemIsLatest(_, _)
AnyItemIsLatest(items, i) ==
  IF i > Len(items) THEN FALSE
  ELSE IF items[i].kind = "string" /\ items[i].val = "ubuntu-latest" THEN TRUE
  ELSE AnyItemIsLatest(items, i + 1)

\* IsUbuntuLatest looking at the first item of a sequence only
IsUbuntuLatestFirstItem(j) ==
  IF j.RunsOn = Nil THEN FALSE
  ELSE CASE j.RunsOn.kind = "string" -> j.RunsOn.val = "ubuntu-latest"
         [] j.RunsOn.kind = "seq" ->
              /\ j.RunsOn.items /= <<>>
              /\ j.RunsOn.items[1] = [kind |-> "string", val |-> "ubuntu-latest"]
         [] OTHER -> FALSE

IsUbuntuLatest(j) ==
  IF j.RunsOn = Nil THEN FALSE
  ELSE CASE j.RunsOn.kind = "string" -> j.RunsOn.val = "ubuntu-latest"
         [] j.RunsOn.kind = "seq" -> AnyItemIsLatest(j.RunsOn.items, 1)
         [] OTHER -> FALSE

\* the inner loop of HasDockerCommands over the patterns, from pattern p on
RECURSIVE AnyPatternMatches(_, _)
AnyPatternMatches(runLower, p) ==
  IF p > Len(containerCommandPatterns) THEN FALSE
  ELSE IF MatchString(containerCommandPatterns[p], runLower) THEN TRUE
  ELSE AnyPatternMatches(runLower, p + 1)

\* the loop of HasDockerCommands over the steps, from step i on
RECURSIVE DockerCommandsFrom(_, _)
DockerCommandsFrom(steps, i) ==
  IF i > Len(steps) THEN FALSE
  ELSE IF steps[i].Run = <<>> THEN DockerCommandsFrom(steps, i + 1)
  ELSE IF AnyPatternMatches(ToLower(steps[i].Run), 1) THEN TRUE
  ELSE DockerCommandsFrom(steps, i + 1)

HasDockerCommands(j) == DockerCommandsFrom(j.Steps, 1)

\* the inner loop of HasContainerActions over the prefixes, from prefix p on
RECURSIVE AnyPrefixMatches(_, _)
AnyPrefixMatches(uses, p) ==
  IF p > Len(containerActionPrefixes) THEN FALSE
  ELSE IF HasPrefix(uses, containerActionPrefixes[p]) THEN TRUE
  ELSE AnyPrefixMatches(uses, p + 1)

\* the loop over the steps leaving at the first step without a uses value
RECURSIVE ContainerActionsBreakOnEmpty(_, _)
ContainerActionsBreakOnEmpty(steps, i) ==
  IF i > Len(steps) THEN FALSE
  ELSE IF steps[i].Uses = <<>> THEN FALSE
  ELSE IF AnyPrefixMatches(steps[i].Uses, 1) THEN TRUE
  ELSE ContainerActionsBreakOnEmpty(steps, i + 1)

\* the loop of HasContainerActions over the steps, from step i on
RECURSIVE ContainerActionsFrom(_, _)
ContainerActionsFrom(steps, i) ==
  IF i > Len(steps) THEN FALSE
  ELSE IF steps[i].Uses = <<>> THEN ContainerActionsFrom(steps, i + 1)
  ELSE IF AnyPrefixMatches(steps[i].Uses, 1) THEN TRUE
  ELSE ContainerActionsFrom(steps, i + 1)

HasContainerActions(j) == ContainerActionsFrom(j.Steps, 1)

\* HasServices counting the entries of the mapping
HasServicesNonEmpty(j) == j.Services /= Nil /\ j.Services.keys /= {}

HasServices(j) == j.Services /= Nil

\* HasContainer testing the services field
HasContainerCopiesServices(j) == j.Services /= Nil

HasContainer(j) == j.Container /= Nil

----------------------------------------------------------------------------
(* package strings, as far as the command scanner uses it.                 *)

\* unicode.IsSpace, on the ASCII characters of the checked texts
WhiteSpace == {" ", "\t", "\n", "\r", "\f"}

\* strings.Index: the first position of sub in s, 0 when there is none
Index(s, sub) ==
  LET hits == { i \in 1..Len(s) : LitAt(s, i, sub) }
  IN IF hits = {} THEN 0 ELSE CHOOSE i \in hits : \A k \in hits : i <= k

\* strings.Contains
Contains(s, sub) == Index(s, sub) /= 0

\* strings.Split, for a separator that is not empty
RECURSIVE Split(_, _)
Split(s, sep) ==
  LET i == Index(s, sep)
  IN IF i = 0 THEN << s >>
     ELSE << SubSeq(s, 1, i - 1) >> \o Split(SubSeq(s, i + Len(sep), Len(s)), sep)

\* strings.TrimSpace
TrimSpace(s) ==
  LET inked == { i \in 1..Len(s) : s[i] \notin WhiteSpace }
  IN IF inked = {} THEN <<>>
     ELSE SubSeq(s, CHOOSE a \in inked : \A i \in inked : a <= i,
                    CHOOSE b \in inked : \A i \in inked : b >= i)

\* strings.Fields
RECURSIVE Fields(_)
Fields(s) ==
  LET t == TrimSpace(s)
      blanks == { i \in 1..Len(t) : t[i] \in WhiteSpace }
  IN IF t = <<>> THEN <<>>
     ELSE IF blanks = {} THEN << t >>
     ELSE LET n == CHOOSE a \in blanks : \A i \in blanks : a <= i
          IN << SubSeq(t, 1, n - 1) >> \o Fields(SubSeq(t, n, Len(t)))

\* strings.Join
RECURSIVE Join(_, _)
Join(elems, sep) ==
  IF elems = <<>> THEN <<>>
  ELSE IF Len(elems) = 1 THEN elems[1]
  ELSE elems[1] \o sep \o Join(Tail(elems), sep)

----------------------------------------------------------------------------
(* package workflow: the command scanner.                                  *)

\* the separators of splitCommandLine, in the order they are applied
separators ==
  << <<"|">>, <<"&", "&">>, <<"|", "|">>, <<";">>, <<">", ">">>, <<"<", "<">>, <<">">>, <<"<">> >>

\* the pieces of one split, trimmed, without the empty ones
RECURSIVE TrimmedNonEmpty(_)
TrimmedNonEmpty(split) ==
  IF split = <<>> THEN <<>>
  ELSE LET s == TrimSpace(Head(split))
       IN (IF s /= <<>> THEN << s >> ELSE <<>>) \o TrimmedNonEmpty(Tail(split))

\* the loop of splitCommandLine over the parts, for one separator
RECURSIVE SplitParts(_, _)
SplitParts(parts, sep) ==
  IF parts = <<>> THEN <<>>
  ELSE TrimmedNonEmpty(Split(Head(parts), sep)) \o SplitParts(Tail(parts), sep)

\* the loop of splitCommandLine over the separators seps, from separator k on
RECURSIVE SplitBySeparators(_, _, _)
SplitBySeparators(parts, seps, k) ==
  IF k > Len(seps) THEN parts
  ELSE SplitBySeparators(SplitParts(parts, seps[k]), seps, k + 1)

\* splitCommandLine keeping the pieces as they are cut
RECURSIVE SplitPartsUntrimmed(_, _)
SplitPartsUntrimmed(parts, sep) ==
  IF parts = <<>> THEN <<>>
  ELSE Split(Head(parts), sep) \o SplitPartsUntrimmed(Tail(parts), sep)

RECURSIVE SplitUntrimmedBySeparators(_, _, _)
SplitUntrimmedBySeparators(parts, seps, k) ==
  IF k > Len(seps) THEN parts
  ELSE SplitUntrimmedBySeparators(SplitPartsUntrimmed(parts, seps[k]), seps, k + 1)

splitCommandLineUntrimmed(line) == SplitUntrimmedBySeparators(<< line >>, separators, 1)

splitCommandLine(line) == SplitBySeparators(<< line >>, separators, 1)

\* the wrapper prefixes extractCommandFromPart skips
prefixes ==
  << <<"s", "u", "d", "o">>, <<"e", "n", "v">>, <<"t", "i", "m", "e">>, <<"n", "o", "h", "u", "p">>, <<"s", "e", "t", "s", "i", "d">>, <<"s", "t", "d", "b", "u", "f">> >>

\* the loop over the leading fields that contain "=": the index it stops at
RECURSIVE SkipAssignments(_, _)
SkipAssignments(fields, startIndex) ==
  IF startIndex > Len(fields) THEN startIndex
  ELSE IF ~Contains(fields[startIndex], <<"=">>) THEN startIndex
  ELSE SkipAssignments(fields, startIndex + 1)

\* field equals one of the prefixes, looked up in their order from p on
RECURSIVE IsPrefixWord(_, _)
IsPrefixWord(field, p) ==
  IF p > Len(prefixes) THEN FALSE
  ELSE IF field = prefixes[p] THEN TRUE
  ELSE IsPrefixWord(field, p + 1)

\* the loop over the leading prefix words: the index it stops at
RECURSIVE SkipPrefixes(_, _)
SkipPrefixes(fields, cmdStartIndex) ==
  IF cmdStartIndex > Len(fields) THEN cmdStartIndex
  ELSE IF ~IsPrefixWord(fields[cmdStartIndex], 1) THEN cmdStartIndex
  ELSE SkipPrefixes(fields, cmdStartIndex + 1)

\* extractCommandFromPart skipping one prefix word at most
extractCommandOnePrefix(part) ==
  LET fields == Fields(TrimSpace(part))
      startIndex == SkipAssignments(fields, 1)
  IN IF startIndex > Len(fields) THEN <<>>
     ELSE LET rest == Fields(Join(SubSeq(fields, startIndex, Len(fields)), <<" ">>))
              cmdStartIndex == IF IsPrefixWord(rest[1], 1) THEN 2 ELSE 1
          IN IF cmdStartIndex > Len(rest) THEN <<>> ELSE rest[cmdStartIndex]

\* extractCommandFromPart without the loop over the assignments
extractCommandNoAssignments(part) ==
  LET fields == Fields(TrimSpace(part))
      cmdStartIndex == SkipPrefixes(fields, 1)
  IN IF cmdStartIndex > Len(fields) THEN <<>> ELSE fields[cmdStartIndex]

extractCommandFromPart(part) ==
  LET trimmed == TrimSpace(part)
      fields == Fields(trimmed)
      startIndex == SkipAssignments(fields, 1)
  IN IF trimmed = <<>> THEN <<>>
     ELSE IF Len(fields) = 0 THEN <<>>
     ELSE IF startIndex > Len(fields) THEN <<>>
     ELSE LET rest == Fields(Join(SubSeq(fields, startIndex, Len(fields)), <<" ">>))
              cmdStartIndex == SkipPrefixes(rest, 1)
          IN IF Len(rest) = 0 THEN <<>>
             ELSE IF cmdStartIndex > Len(rest) THEN <<>>
             ELSE rest[cmdStartIndex]

normalizeCommand(cmd) ==
  IF cmd = <<>> THEN <<>>
  ELSE IF Contains(cmd, <<"/">>)
       THEN LET parts == Split(cmd, <<"/">>) IN TrimSpace(parts[Len(parts)])
       ELSE TrimSpace(cmd)

\* the loop of extractCommands over the parts of a line, from part p on
RECURSIVE CommandsOfParts(_, _)
CommandsOfParts(parts, p) ==
  IF p > Len(parts) THEN <<>>
  ELSE LET cmd == extractCommandFromPart(parts[p])
       IN (IF cmd /= <<>> THEN << cmd >> ELSE <<>>) \o CommandsOfParts(parts, p + 1)

\* the loop of extractCommands over the lines, from line i on
RECURSIVE CommandsOfLines(_, _)
CommandsOfLines(lines, i) ==
  IF i > Len(lines) THEN <<>>
  ELSE LET line == TrimSpace(lines[i])
       IN IF line = <<>> THEN CommandsOfLines(lines, i + 1)
          ELSE IF HasPrefix(line, <<"#">>) THEN CommandsOfLines(lines, i + 1)
          ELSE IF HasPrefix(line, <<"#", "!">>) THEN CommandsOfLines(lines, i + 1)
          ELSE CommandsOfParts(splitCommandLine(line), 1)
                 \o CommandsOfLines(lines, i + 1)

extractCommands(script) == CommandsOfLines(Split(script, <<"\n">>), 1)

\* the table of the commands that ubuntu-slim lacks
IsMissingInSlim(cmdName) == cmdName \in missingInSlim

\* the loop of GetMissingCommands over the commands of a step, from k on;
\* acc holds missingCommands and seen
RECURSIVE MissingOfCommands(_, _, _)
MissingOfCommands(commands, k, acc) ==
  IF k > Len(commands) THEN acc
  ELSE LET cmdName == normalizeCommand(commands[k])
       IN IF cmdName = <<>> THEN MissingOfCommands(commands, k + 1, acc)
          ELSE IF IsMissingInSlim(cmdName) /\ cmdName \notin acc.seen
          THEN MissingOfCommands(commands, k + 1,
                 [missingCommands |-> Append(acc.missingCommands, cmdName),
                  seen |-> acc.seen \cup {cmdName}])
          ELSE MissingOfCommands(commands, k + 1, acc)

\* the loop of GetMissingCommands over the steps, from step i on
RECURSIVE MissingOfSteps(_, _, _)
MissingOfSteps(steps, i, acc) ==
  IF i > Len(steps) THEN acc
  ELSE IF steps[i].Run = <<>> THEN MissingOfSteps(steps, i + 1, acc)
  ELSE MissingOfSteps(steps, i + 1,
         MissingOfCommands(extractCommands(steps[i].Run), 1, acc))

\* GetMissingCommands scanning the job whatever its runner is
GetMissingCommandsAnyRunner(j) ==
  MissingOfSteps(j.Steps, 1, [missingCommands |-> <<>>, seen |-> {}]).missingCommands

\* GetMissingCommands appending a missing command each time it is met
RECURSIVE AllMissingOf(_, _)
AllMissingOf(commands, k) ==
  IF k > Len(commands) THEN <<>>
  ELSE LET cmdName == normalizeCommand(commands[k])
       IN (IF cmdName /= <<>> /\ IsMissingInSlim(cmdName) THEN << cmdName >> ELSE <<>>)
            \o AllMissingOf(commands, k + 1)

RECURSIVE AllMissingOfSteps(_, _)
AllMissingOfSteps(steps, i) ==
  IF i > Len(steps) THEN <<>>
  ELSE AllMissingOf(extractCommands(steps[i].Run), 1) \o AllMissingOfSteps(steps, i + 1)

GetMissingCommandsNoSeen(j) ==
  IF ~IsUbuntuLatest(j) THEN <<>> ELSE AllMissingOfSteps(j.Steps, 1)

GetMissingCommands(j) ==
  IF ~IsUbuntuLatest(j) THEN <<>>
  ELSE MissingOfSteps(j.Steps, 1, [missingCommands |-> <<>>, seen |-> {}]).missingCommands

----------------------------------------------------------------------------
(* package scan: the evaluator and the scan of one workflow file.          *)

\* the run-time ceiling of the slim runner, in minutes
DurationCeilingMinutes == 15

\* no duration data: the caller skipped the fetch, or the job never ran
NoDuration == Nil

\* the duration of the most recent run, in seconds
DurationVal(seconds) == [kind |-> "duration", seconds |-> seconds]

\* the runs-on labels of a job, in either form; a nil or other value has none
RunnerLabels(j) ==
  CASE j.RunsOn.kind = "string" -> << j.RunsOn >>
    [] j.RunsOn.kind = "seq" -> j.RunsOn.items
    [] OTHER -> << >>

\* the job declares runner labels and each of them is the slim label
IsUbuntuSlim(j) ==
  LET labels == RunnerLabels(j)
  IN /\ Len(labels) > 0
     /\ \A i \in 1..Len(labels) :
          labels[i].kind = "string" /\ labels[i].val = "ubuntu-slim"

isEligible(j) ==
  /\ IsUbuntuLatest(j)
  /\ ~HasDockerCommands(j)
  /\ ~HasContainerActions(j)
  /\ ~HasServices(j)
  /\ ~HasContainer(j)

\* the duration criterion letting a run of exactly the ceiling pass
DurationExceededStrict(duration) ==
  /\ duration /= NoDuration
  /\ duration.seconds > DurationCeilingMinutes * 60

\* the duration criterion: evaluated only on supplied data
DurationExceeded(duration) ==
  /\ duration /= NoDuration
  /\ duration.seconds >= DurationCeilingMinutes * 60

\* reasons with the criterion added when it is violated
Record(reasons, violated, criterion) ==
  IF violated THEN reasons \cup {criterion} ELSE reasons

\* the criteria stopping at the first violated one
CheckCriteriaShortCircuit(j, duration) ==
  IF ~IsUbuntuLatest(j) THEN {"source-runner"}
  ELSE IF HasDockerCommands(j) THEN {"docker-commands"}
  ELSE IF HasContainerActions(j) THEN {"container-actions"}
  ELSE IF HasServices(j) THEN {"services"}
  ELSE IF HasContainer(j) THEN {"container"}
  ELSE IF DurationExceeded(duration) THEN {"duration"}
  ELSE {}

\* every criterion is evaluated and each violated one is recorded
CheckCriteria(j, duration) ==
  LET r1 == Record({}, ~IsUbuntuLatest(j), "source-runner")
      r2 == Record(r1, HasDockerCommands(j), "docker-commands")
      r3 == Record(r2, HasContainerActions(j), "container-actions")
      r4 == Record(r3, HasServices(j), "services")
      r5 == Record(r4, HasContainer(j), "container")
  IN Record(r5, DurationExceeded(duration), "duration")

\* the evaluator asking for the slim label only once no criterion other
\* than the source runner is violated
EvaluateSlimAfterCriteria(j, duration) ==
  LET reasons == CheckCriteria(j, duration)
  IN IF reasons \ {"source-runner"} /= {}
     THEN [classification |-> "Ineligible", reasons |-> reasons]
     ELSE IF IsUbuntuSlim(j)
     THEN [classification |-> "AlreadyMigrated", reasons |-> {}]
     ELSE [classification |-> IF reasons = {} THEN "Eligible" ELSE "Ineligible",
           reasons |-> reasons]

Evaluate(j, duration) ==
  IF IsUbuntuSlim(j)
  THEN [classification |-> "AlreadyMigrated", reasons |-> {}]
  ELSE LET reasons == CheckCriteria(j, duration)
       IN [classification |-> IF reasons = {} THEN "Eligible" ELSE "Ineligible",
           reasons |-> reasons]

\* the entry of a result group for the job of a file entry
ResultEntry(entry, verdict) ==
  [JobID |-> entry.JobID, Reasons |-> verdict.reasons, Duration |-> entry.Duration]

\* the iteration of the scan leaving out the jobs already on the slim label
ScanJobDropsSlim ==
  /\ idx <= Len(jobs)
  /\ LET entry == jobs[idx]
         verdict == Evaluate(entry.Job, entry.Duration)
         result == ResultEntry(entry, verdict)
     IN /\ Candidates' =
             IF verdict.classification = "Eligible"
             THEN Append(Candidates, result) ELSE Candidates
        /\ IneligibleJobs' =
             IF verdict.classification = "Ineligible"
             THEN Append(IneligibleJobs, result) ELSE IneligibleJobs
  /\ idx' = idx + 1
  /\ UNCHANGED <<jobs, AlreadySlimJobs, missingInSlim, report>>

\* one iteration of the scan: the next job of the file is evaluated and
\* appended to the group of its classification
ScanJob ==
  /\ idx <= Len(jobs)
  /\ LET entry == jobs[idx]
         verdict == Evaluate(entry.Job, entry.Duration)
         result == ResultEntry(entry, verdict)
     IN /\ Candidates' =
             IF verdict.classification = "Eligible"
             THEN Append(Candidates, result) ELSE Candidates
        /\ IneligibleJobs' =
             IF verdict.classification = "Ineligible"
             THEN Append(IneligibleJobs, result) ELSE IneligibleJobs
        /\ AlreadySlimJobs' =
             IF verdict.classification = "AlreadyMigrated"
             THEN Append(AlreadySlimJobs, result) ELSE AlreadySlimJobs
  /\ idx' = idx + 1
  /\ UNCHANGED <<jobs, missingInSlim, report>>

Next == ScanJob

----------------------------------------------------------------------------
(* The inputs of the checked instances.                                    *)

\* all sequences over S of length at most n
SeqsUpTo(S, n) == UNION { [1..m -> S] : m \in 0..n }

RunnerLabelNames ==
  { "ubuntu-latest", "ubuntu-slim", "ubuntu-latest-xl", "Ubuntu-Latest", "ubuntu-22.04" }

\* the items of a runs-on sequence: labels, and a non-string item holding
\* the source label (a nested mapping)
RunnerItems ==
  { StringVal("ubuntu-latest"), StringVal("ubuntu-slim"),
    [kind |-> "map", val |-> "ubuntu-latest"] }

RunnerSpecs ==
  {Nil}
  \cup { StringVal(l) : l \in RunnerLabelNames }
  \cup { SeqVal(items) : items \in SeqsUpTo(RunnerItems, MaxLabels) }
  \cup { MapVal({"group"}) }

RunStep(text) == [Run |-> text, Uses |-> <<>>]

UsesStep(ref) == [Run |-> <<>>, Uses |-> ref]

StepSet ==
  { RunStep(<<"e", "c", "h", "o", " ", "h", "e", "l", "l", "o">>),
    RunStep(<<"d", "o", "c", "k", "e", "r", " ", "b", "u", "i", "l", "d", " ", ".">>),
    UsesStep(<<"a", "c", "t", "i", "o", "n", "s", "/", "c", "h", "e", "c", "k", "o", "u", "t", "@", "v", "4">>),
    UsesStep(<<"d", "o", "c", "k", "e", "r", ":", "/", "/", "a", "l", "p", "i", "n", "e", ":", "l", "a", "t", "e", "s", "t">>),
    UsesStep(<<"d", "o", "c", "k", "e", "r", "/", "l", "o", "g", "i", "n", "-", "a", "c", "t", "i", "o", "n", "@", "v", "3">>) }

ServicesSet == { Nil, MapVal({}), MapVal({"postgres"}) }

ContainerSet == { Nil, StringVal("node:18"), MapVal({"image"}) }

DurationSet == { NoDuration, DurationVal(899), DurationVal(900) }

JobSet ==
  [ RunsOn : RunnerSpecs,
    Steps : SeqsUpTo(StepSet, MaxSteps),
    Services : ServicesSet,
    Container : ContainerSet ]

FileEntry(id, j, d) == [JobID |-> id, Job |-> j, Duration |-> d]

\* no job has been reported on yet
NoReport == [done |-> FALSE, JobID |-> 0, MissingCommands |-> <<>>]

\* a table of the commands that ubuntu-slim lacks
SlimTable == { <<"d", "o", "c", "k", "e", "r">>, <<"m", "a", "k", "e">> }

InitResults ==
  /\ idx = 1
  /\ Candidates = <<>>
  /\ IneligibleJobs = <<>>
  /\ AlreadySlimJobs = <<>>
  /\ missingInSlim = SlimTable
  /\ report = NoReport

\* a workflow file of one job, over all job definitions and durations
Init ==
  /\ jobs \in { << FileEntry(1, j, d) >> : j \in JobSet, d \in DurationSet }
  /\ InitResults

Spec == Init /\ [][Next]_vars

\* the pieces generated shell texts are concatenated from
Pieces ==
  { <<"d", "o", "c", "k", "e", "r">>, <<"D", "O", "C", "K", "E", "R">>, <<"b", "u", "i", "l", "d">>, <<"c", "o", "m", "p", "o", "s", "e">>, <<"s", "u", "d", "o", " ">>, <<"x">>,
    <<" ">>, <<"-">>, <<"_">>, <<"\n">> }

\* the concatenation of a sequence of strings
RECURSIVE Flatten(_)
Flatten(ps) == IF ps = <<>> THEN <<>> ELSE Head(ps) \o Flatten(Tail(ps))

\* the shell texts of the tests of package scan, and each subcommand after
\* one blank, two blanks, a tab, a hyphen, and as the start of a longer word
FixedTexts ==
  { <<"e", "c", "h", "o", " ", "D", "O", "C", "K", "E", "R", "_", "B", "U", "I", "L", "D">>,
    <<"d", "o", "c", "k", "e", "r", " ", "b", "u", "i", "l", "d", " ", "-", "t", " ", "m", "y", "a", "p", "p", " ", ".">>,
    <<"d", "o", "c", "k", "e", "r", " ", "r", "u", "n", " ", "m", "y", "a", "p", "p">>,
    <<"d", "o", "c", "k", "e", "r", " ", "c", "o", "m", "p", "o", "s", "e", " ", "u", "p">>,
    <<"d", "o", "c", "k", "e", "r", "-", "c", "o", "m", "p", "o", "s", "e", " ", "u", "p">>,
    <<"#", "!", "/", "b", "i", "n", "/", "b", "a", "s", "h", "\n", "e", "c", "h", "o", " ", "\"", "B", "u", "i", "l", "d", "i", "n", "g", "\"", "\n", "d", "o", "c", "k", "e", "r", " ", "b", "u", "i", "l", "d", " ", "-", "t", " ", "a", "p", "p", " ", ".", "\n", "e", "c", "h", "o", " ", "\"", "D", "o", "n", "e", "\"">>,
    <<"s", "u", "d", "o", " ", "d", "o", "c", "k", "e", "r", " ", "r", "u", "n", " ", "x">>,
    <<"c", "a", "t", " ", "d", "o", "c", "k", "e", "r", "-", "c", "o", "m", "p", "o", "s", "e", ".", "y", "m", "l">>,
    <<"n", "p", "m", " ", "i", "n", "s", "t", "a", "l", "l">> }
  \cup { <<"d", "o", "c", "k", "e", "r", " ">> \o sub : sub \in DockerSubcommands }
  \cup { <<"D", "o", "c", "k", "e", "r", " ", " ">> \o sub : sub \in DockerSubcommands }
  \cup { <<"d", "o", "c", "k", "e", "r", "\t">> \o sub : sub \in DockerSubcommands }
  \cup { <<"d", "o", "c", "k", "e", "r", "-">> \o sub : sub \in DockerSubcommands }
  \cup { <<"d", "o", "c", "k", "e", "r", " ">> \o sub \o <<"x">> : sub \in DockerSubcommands }

ShellTexts ==
  { Flatten(ps) : ps \in SeqsUpTo(Pieces, MaxPieces) } \cup FixedTexts

SourceJob(steps) ==
  [RunsOn |-> StringVal("ubuntu-latest"), Steps |-> steps,
   Services |-> Nil, Container |-> Nil]

\* a workflow file of one job on ubuntu-latest whose shell step runs one of
\* the shell texts, alone or after a checkout step
InitText ==
  /\ jobs \in
       { << FileEntry(1, SourceJob(<< RunStep(t) >>), NoDuration) >> : t \in ShellTexts }
       \cup { << FileEntry(1, SourceJob(<< UsesStep(<<"a", "c", "t", "i", "o", "n", "s", "/", "c", "h", "e", "c", "k", "o", "u", "t", "@", "v", "4">>), RunStep(t) >>),
                           NoDuration) >> : t \in FixedTexts }
  /\ InitResults

SpecText == InitText /\ [][Next]_vars

\* the job definitions of the scanned files: the jobs of the workflows of
\* TestScan_AlreadySlimJobs and TestScan_Integration, and a job with services
ScanJobSet ==
  { SourceJob(<< RunStep(<<"e", "c", "h", "o", " ", "h", "e", "l", "l", "o">>) >>),
    SourceJob(<< RunStep(<<"d", "o", "c", "k", "e", "r", " ", "b", "u", "i", "l", "d", " ", ".">>) >>),
    [SourceJob(<< RunStep(<<"e", "c", "h", "o", " ", "h", "e", "l", "l", "o">>) >>) EXCEPT !.RunsOn = StringVal("ubuntu-22.04")],
    [SourceJob(<< RunStep(<<"e", "c", "h", "o", " ", "h", "e", "l", "l", "o">>) >>) EXCEPT !.RunsOn = StringVal("ubuntu-slim")],
    [SourceJob(<< RunStep(<<"e", "c", "h", "o", " ", "h", "e", "l", "l", "o">>) >>) EXCEPT !.Container = MapVal({"image"})],
    [SourceJob(<< RunStep(<<"e", "c", "h", "o", " ", "h", "e", "l", "l", "o">>) >>) EXCEPT !.Services = MapVal({"postgres"})] }

\* a workflow file of up to MaxJobs jobs, each identified by its position
InitScan ==
  /\ jobs \in
       UNION { { [i \in 1..n |-> FileEntry(i, js[i], ds[i])] :
                   js \in [1..n -> ScanJobSet],
                   ds \in [1..n -> {NoDuration, DurationVal(900)}] } :
               n \in 0..MaxJobs }
  /\ InitResults

SpecScan == InitScan /\ [][Next]_vars

RunnerJob(runsOn, steps) ==
  [RunsOn |-> runsOn, Steps |-> steps, Services |-> Nil, Container |-> Nil]

\* the uses values of the steps of the jobs scanned for container actions
UsesSet ==
  { <<"a", "c", "t", "i", "o", "n", "s", "/", "c", "h", "e", "c", "k", "o", "u", "t", "@", "v", "4">>,
    <<"d", "o", "c", "k", "e", "r", ":", "/", "/", "a", "l", "p", "i", "n", "e", ":", "l", "a", "t", "e", "s", "t">>,
    <<"d", "o", "c", "k", "e", "r", "/", "l", "o", "g", "i", "n", "-", "a", "c", "t", "i", "o", "n", "@", "v", "3">>,
    <<"d", "o", "c", "k", "e", "r", "f", "o", "o", "/", "a", "c", "t", "i", "o", "n", "@", "v", "1">>,
    <<"D", "o", "c", "k", "e", "r", "/", "l", "o", "g", "i", "n", "-", "a", "c", "t", "i", "o", "n", "@", "v", "3">> }

\* a workflow file of one job whose steps are shell steps and uses steps
InitUses ==
  /\ jobs \in
       { << FileEntry(1, RunnerJob(r, steps), NoDuration) >> :
           r \in { StringVal("ubuntu-latest"), StringVal("ubuntu-slim"),
                   StringVal("ubuntu-22.04") },
           steps \in SeqsUpTo({ UsesStep(u) : u \in UsesSet }
                                \cup { RunStep(<<"e", "c", "h", "o", " ", "h", "e", "l", "l", "o">>) }, MaxSteps) }
  /\ InitResults

SpecUses == InitUses /\ [][Next]_vars

----------------------------------------------------------------------------
(* The report of the commands a job runs and ubuntu-slim lacks.            *)

\* GetMissingCommands is called on a job of the file and its result kept
ReportMissingCommands ==
  /\ ~report.done
  /\ \E i \in 1..Len(jobs) :
       report' = [done |-> TRUE, JobID |-> jobs[i].JobID,
                  MissingCommands |-> GetMissingCommands(jobs[i].Job)]
  /\ UNCHANGED <<jobs, idx, Candidates, IneligibleJobs, AlreadySlimJobs, missingInSlim>>

NextCommands == ReportMissingCommands

\* the tokens generated command lines are made of
CommandTokens ==
  { <<"m", "a", "k", "e">>, <<"/", "u", "s", "r", "/", "b", "i", "n", "/", "d", "o", "c", "k", "e", "r">>, <<"s", "u", "d", "o">>, <<"e", "n", "v">>, <<"F", "O", "O", "=", "b", "a", "r">> }

\* the command lines of up to MaxTokens tokens, one blank between two tokens
TokenLines == { Join(ts, <<" ">>) : ts \in SeqsUpTo(CommandTokens, MaxTokens) }

\* the pieces generated lines with operators are concatenated from
OperatorPieces ==
  { <<"l", "s">>, <<" ">>, <<"|">>, <<"&">>, <<";">>, <<">">> }

OperatorLines == { Flatten(ps) : ps \in SeqsUpTo(OperatorPieces, MaxPieces) }

\* step lists with the command lines of the spec and scripts of several
\* lines and steps
FixedStepLists ==
  { << RunStep(<<"s", "u", "d", "o", " ", "d", "o", "c", "k", "e", "r", " ", "b", "u", "i", "l", "d", " ", "-", "t", " ", "a", "p", "p", " ", ".">>) >>,
    << RunStep(<<"s", "u", "d", "o", " ", "e", "n", "v", " ", "t", "i", "m", "e", " ", "/", "u", "s", "r", "/", "b", "i", "n", "/", "d", "o", "c", "k", "e", "r", " ", "r", "u", "n", " ", "x">>) >>,
    << RunStep(<<"F", "O", "O", "=", "b", "a", "r", " ", "B", "A", "Z", "=", "q", "u", "x">>) >>,
    << RunStep(<<"e", "n", "v", " ", "F", "O", "O", "=", "b", "a", "r", " ", "m", "a", "k", "e">>) >>,
    << RunStep(<<"s", "u", "d", "o", " ", "F", "O", "O", "=", "b", "a", "r", " ", "m", "a", "k", "e">>) >>,
    << RunStep(<<"n", "o", "h", "u", "p", " ", "s", "e", "t", "s", "i", "d", " ", "s", "t", "d", "b", "u", "f", " ", "t", "i", "m", "e">>) >>,
    << RunStep(<<"/", "u", "s", "r", "/", "b", "i", "n", "/", " ", "x">>) >>,
    << RunStep(<<"#", "!", "/", "b", "i", "n", "/", "b", "a", "s", "h", "\n", "#", " ", "m", "a", "k", "e", "\n", "F", "O", "O", "=", "b", "a", "r", " ", "m", "a", "k", "e", " ", "a", "l", "l", " ", "&", "&", " ", "d", "o", "c", "k", "e", "r", " ", "p", "u", "s", "h", " ", "x", "\n", "\n", " ", " ", "m", "a", "k", "e", " ", "t", "e", "s", "t", " ", "|", " ", "t", "e", "e", " ", "l", "o", "g">>) >>,
    << RunStep(<<"e", "c", "h", "o", " ", "a", " ", ">", ">", " ", "o", "u", "t", ".", "t", "x", "t", " ", "2", ">", "&", "1", " ", "|", "|", " ", "e", "x", "i", "t", " ", "1">>) >>,
    << RunStep(<<"s", "o", "r", "t", " ", "<", " ", "i", "n", ".", "t", "x", "t", " ", "|", " ", "t", "e", "e", " ", "o", "u", "t", ".", "t", "x", "t", ";", " ", "c", "a", "t", " ", "<", "<", " ", "E", "O", "F">>) >>,
    << RunStep(<<"d", "o", "c", "k", "e", "r", " ", "b", "u", "i", "l", "d", " ", ".", "\n", "m", "a", "k", "e">>), RunStep(<<"m", "a", "k", "e", ";", " ", "/", "u", "s", "r", "/", "l", "o", "c", "a", "l", "/", "b", "i", "n", "/", "d", "o", "c", "k", "e", "r", " ", "p", "s">>) >>,
    << UsesStep(<<"a", "c", "t", "i", "o", "n", "s", "/", "c", "h", "e", "c", "k", "o", "u", "t", "@", "v", "4">>), RunStep(<<"m", "a", "k", "e">>) >>,
    << UsesStep(<<"a", "c", "t", "i", "o", "n", "s", "/", "c", "h", "e", "c", "k", "o", "u", "t", "@", "v", "4">>) >> }

\* the runner specs of the reported jobs
ReportRunnerSpecs ==
  { Nil,
    StringVal("ubuntu-latest"),
    StringVal("ubuntu-slim"),
    StringVal("ubuntu-22.04"),
    StringVal("ubuntu-latest-xl"),
    SeqVal(<< StringVal("ubuntu-22.04"), StringVal("ubuntu-latest") >>),
    SeqVal(<< StringVal("ubuntu-slim") >>),
    MapVal({"group"}) }

\* the tables of the reported jobs
Tables ==
  { {}, SlimTable, { <<"d", "o", "c", "k", "e", "r">>, <<"m", "a", "k", "e">>, <<"l", "s">>, <<"s", "u", "d", "o">>, <<"F", "O", "O", "=", "b", "a", "r">>, <<"B", "A", "Z", "=", "q", "u", "x">> } }

\* a workflow file of one job: a generated command line on ubuntu-latest
\* under each table that is not empty, a generated line with operators, or a fixed step list
\* on each runner spec under each table
InitCommands ==
  /\ \/ /\ jobs \in { << FileEntry(1, SourceJob(<< RunStep(t) >>), NoDuration) >> :
                        t \in TokenLines }
        /\ missingInSlim \in Tables \ { {} }
     \/ /\ jobs \in { << FileEntry(1, SourceJob(<< RunStep(t) >>), NoDuration) >> :
                        t \in OperatorLines }
        /\ missingInSlim = { <<"l", "s">> }
     \/ /\ jobs \in { << FileEntry(1, RunnerJob(r, steps), NoDuration) >> :
                        r \in ReportRunnerSpecs, steps \in FixedStepLists }
        /\ missingInSlim \in Tables
  /\ idx = 1
  /\ Candidates = <<>>
  /\ IneligibleJobs = <<>>
  /\ AlreadySlimJobs = <<>>
  /\ report = NoReport

SpecCommands == InitCommands /\ [][NextCommands]_vars

----------------------------------------------------------------------------
(* Vocabulary of the properties: what a job declares, read off its fields, *)
(* and where the scan has put it.                                          *)

\* the jobs of the file the scan has passed
ScannedIDs == 1..(idx - 1)

InGroup(group, id) == \E k \in 1..Len(group) : group[k].JobID = id

\* the results of the scan, over the three groups
AllResults == Candidates \o IneligibleJobs \o AlreadySlimJobs

\* the result entry of a scanned job
ResultOf(id) ==
  AllResults[CHOOSE k \in 1..Len(AllResults) : AllResults[k].JobID = id]

\* the runner spec is the source label, or a sequence holding it as a string
DeclaresLatest(j) ==
  \/ j.RunsOn.kind = "string" /\ j.RunsOn.val = "ubuntu-latest"
  \/ /\ j.RunsOn.kind = "seq"
     /\ \E k \in 1..Len(j.RunsOn.items) : j.RunsOn.items[k] = StringVal("ubuntu-latest")

\* the runner spec is the slim label, or a sequence of nothing but the slim label
DeclaresOnlySlim(j) ==
  \/ j.RunsOn.kind = "string" /\ j.RunsOn.val = "ubuntu-slim"
  \/ /\ j.RunsOn.kind = "seq"
     /\ j.RunsOn.items /= <<>>
     /\ \A k \in 1..Len(j.RunsOn.items) : j.RunsOn.items[k] = StringVal("ubuntu-slim")

\* some shell step matches a Docker command pattern
RunsDockerPattern(j) ==
  \E k \in 1..Len(j.Steps) :
    \E p \in 1..Len(containerCommandPatterns) :
      MatchString(containerCommandPatterns[p], ToLower(j.Steps[k].Run))

\* some step's action reference begins with the reserved prefix
UsesReservedPrefix(j) ==
  \E k \in 1..Len(j.Steps) : HasPrefix(j.Steps[k].Uses, <<"d", "o", "c", "k", "e", "r">>)

\* the five criteria of the README hold together
FiveCriteriaHold(j) ==
  /\ DeclaresLatest(j)
  /\ ~RunsDockerPattern(j)
  /\ ~UsesReservedPrefix(j)
  /\ j.Services.kind = "nil"
  /\ j.Container.kind = "nil"

----------------------------------------------------------------------------
(* C1: a job that is not already on ubuntu-slim and has no duration data   *)
(* is eligible (isEligible holds and the scan puts it in Candidates) if    *)
(* and only if it runs on ubuntu-latest, no shell step matches a Docker    *)
(* command pattern, no step uses a container-based action, it declares no  *)
(* services and it declares no container; a job that fails one of the five *)
(* alone is not eligible.  (A services mapping without entries is a        *)
(* declared services field here; see C7.)                                  *)
C1_EligibleIffFiveCriteria ==
  \A i \in ScannedIDs :
    LET j == jobs[i].Job
    IN (~DeclaresOnlySlim(j) /\ jobs[i].Duration = NoDuration) =>
         /\ InGroup(Candidates, i) <=> FiveCriteriaHold(j)
         /\ isEligible(j) <=> FiveCriteriaHold(j)

\* a scanned job that fails the container criterion alone is in IneligibleJobs
C1_Witness ==
  /\ idx = 2
  /\ jobs[1].Duration = NoDuration
  /\ DeclaresLatest(jobs[1].Job)
  /\ ~RunsDockerPattern(jobs[1].Job)
  /\ ~UsesReservedPrefix(jobs[1].Job)
  /\ jobs[1].Job.Services.kind = "nil"
  /\ jobs[1].Job.Container.kind = "string"
  /\ Len(jobs[1].Job.Steps) = 2
  /\ InGroup(IneligibleJobs, 1)

(* C2: a job whose runner spec, as one label or as a sequence of labels,   *)
(* holds only ubuntu-slim is classified AlreadyMigrated whatever its       *)
(* steps, services and container are: the scan puts it in AlreadySlimJobs, *)
(* in no other group, and records no violated criterion.                   *)
C2_SlimOnlyIsAlreadyMigrated ==
  \A i \in ScannedIDs :
    DeclaresOnlySlim(jobs[i].Job) =>
      /\ InGroup(AlreadySlimJobs, i)
      /\ ~InGroup(Candidates, i)
      /\ ~InGroup(IneligibleJobs, i)
      /\ ResultOf(i).Reasons = {}

\* a scanned job on a sequence of slim labels with a docker build step, a
\* docker action, services and a container is in AlreadySlimJobs
C2_Witness ==
  /\ idx = 2
  /\ jobs[1].Job.RunsOn.kind = "seq"
  /\ DeclaresOnlySlim(jobs[1].Job)
  /\ RunsDockerPattern(jobs[1].Job)
  /\ UsesReservedPrefix(jobs[1].Job)
  /\ jobs[1].Job.Services = MapVal({"postgres"})
  /\ jobs[1].Job.Container = StringVal("node:18")
  /\ InGroup(AlreadySlimJobs, 1)

(* C3: IsUbuntuLatest holds exactly when the runner spec is the string     *)
(* "ubuntu-latest" or a sequence with an item that is that string; it      *)
(* fails for a nil spec, an empty sequence, another value shape and labels *)
(* that extend the source label or differ from it in case, and a scanned   *)
(* job for which it fails (and that is not on the slim label alone) is in  *)
(* IneligibleJobs with the source-runner criterion recorded.               *)
C3_SourceRunnerExactMatch ==
  /\ \A i \in 1..Len(jobs) : IsUbuntuLatest(jobs[i].Job) <=> DeclaresLatest(jobs[i].Job)
  /\ \A i \in ScannedIDs :
       ~DeclaresOnlySlim(jobs[i].Job) =>
         /\ ("source-runner" \in ResultOf(i).Reasons) <=> ~DeclaresLatest(jobs[i].Job)
         /\ ~DeclaresLatest(jobs[i].Job) => InGroup(IneligibleJobs, i)

\* a scanned job on ubuntu-latest-xl that violates nothing else is in
\* IneligibleJobs for the source-runner criterion alone
C3_Witness ==
  /\ idx = 2
  /\ jobs[1].Job.RunsOn = StringVal("ubuntu-latest-xl")
  /\ InGroup(IneligibleJobs, 1)
  /\ ResultOf(1).Reasons = {"source-runner"}

----------------------------------------------------------------------------
(* Vocabulary of the properties about shell text.                          *)

\* the lower-cased shell texts of the steps of a job
LowerRuns(j) == { ToLower(j.Steps[k].Run) : k \in 1..Len(j.Steps) }

\* lit occurs in s as a word of its own: no word character before or after
OccursAsWord(s, lit) ==
  \E i \in 1..Len(s) :
    LitAt(s, i, lit) /\ ~WordAt(s, i - 1) /\ ~WordAt(s, i + Len(lit))

\* every occurrence of "docker" in s is part of a longer word
DockerOnlyInsideWords(s) ==
  \A i \in 1..Len(s) :
    LitAt(s, i, <<"d", "o", "c", "k", "e", "r">>) => (WordAt(s, i - 1) \/ WordAt(s, i + 6))

\* positions i..i+k-1 of s are whitespace
BlanksAt(s, i, k) ==
  \A m \in 0..(k - 1) : i + m <= Len(s) /\ s[i + m] \in {" ", "\t", "\n", "\f", "\r"}

\* s holds the word docker, one or more whitespace characters and the word
\* sub
DockerThenWord(s, sub) ==
  \E i \in 1..Len(s) : \E k \in 1..Len(s) :
    /\ LitAt(s, i, <<"d", "o", "c", "k", "e", "r">>)
    /\ ~WordAt(s, i - 1)
    /\ BlanksAt(s, i + 6, k)
    /\ LitAt(s, i + 6 + k, sub)
    /\ ~WordAt(s, i + 6 + k + Len(sub))

\* s invokes a Docker command: docker and a subcommand, docker-compose, or
\* docker compose
InvokesDocker(s) ==
  \/ \E sub \in { <<"b", "u", "i", "l", "d">>, <<"r", "u", "n">>, <<"e", "x", "e", "c">>, <<"p", "s">>, <<"p", "u", "l", "l">>, <<"p", "u", "s", "h">>, <<"t", "a", "g">>, <<"l", "o", "g", "i", "n">> } :
       DockerThenWord(s, sub)
  \/ OccursAsWord(s, <<"d", "o", "c", "k", "e", "r", "-", "c", "o", "m", "p", "o", "s", "e">>)
  \/ DockerThenWord(s, <<"c", "o", "m", "p", "o", "s", "e">>)

(* C4: shell text in which "docker" occurs only inside a longer word (as   *)
(* in echo DOCKER_BUILD; a word is a run of letters, digits and            *)
(* underscores) does not trigger the Docker-command criterion, and shell   *)
(* text that holds the words "docker build" does.                          *)
C4_DockerInsideWordNotFlagged ==
  \A i \in ScannedIDs :
    LET j == jobs[i].Job
    IN ~DeclaresOnlySlim(j) =>
         /\ (\A s \in LowerRuns(j) : DockerOnlyInsideWords(s)) =>
              /\ ~HasDockerCommands(j)
              /\ "docker-commands" \notin ResultOf(i).Reasons
         /\ (\E s \in LowerRuns(j) : OccursAsWord(s, <<"d", "o", "c", "k", "e", "r", " ", "b", "u", "i", "l", "d">>)) =>
              /\ HasDockerCommands(j)
              /\ "docker-commands" \in ResultOf(i).Reasons

\* the scanned job that echoes DOCKER_BUILD is in Candidates
C4_Witness ==
  /\ idx = 2
  /\ jobs[1].Job.Steps = << RunStep(<<"e", "c", "h", "o", " ", "D", "O", "C", "K", "E", "R", "_", "B", "U", "I", "L", "D">>) >>
  /\ InGroup(Candidates, 1)

(* C5: HasDockerCommands is true whenever a shell step holds, on any line  *)
(* and in any letter case, the word docker followed by one or more         *)
(* whitespace characters and one of the subcommands build, run, exec, ps,  *)
(* pull, push, tag, login as a whole word, or docker-compose, or docker,   *)
(* whitespace and compose; also after a wrapper such as sudo.              *)
C5_DockerInvocationFlagged ==
  \A i \in ScannedIDs :
    LET j == jobs[i].Job
    IN (~DeclaresOnlySlim(j) /\ \E s \in LowerRuns(j) : InvokesDocker(s)) =>
         /\ HasDockerCommands(j)
         /\ "docker-commands" \in ResultOf(i).Reasons

(* C6: a job with a step whose action reference begins with docker:// or   *)
(* with docker/ has HasContainerActions true and is not eligible, whatever *)
(* follows the prefix and whatever the other steps are.                    *)
C6_ReservedPrefixFlagged ==
  \A i \in 1..Len(jobs) :
    LET j == jobs[i].Job
    IN (\E k \in 1..Len(j.Steps) :
          \/ HasPrefix(j.Steps[k].Uses, <<"d", "o", "c", "k", "e", "r", ":", "/", "/">>)
          \/ HasPrefix(j.Steps[k].Uses, <<"d", "o", "c", "k", "e", "r", "/">>)) =>
         /\ HasContainerActions(j)
         /\ ~isEligible(j)
         /\ i \in ScannedIDs =>
              /\ ~InGroup(Candidates, i)
              /\ ~DeclaresOnlySlim(j) => "container-actions" \in ResultOf(i).Reasons

\* a scanned job whose docker:// step comes after a shell step is in
\* IneligibleJobs for the container-actions criterion alone
C6_Witness ==
  /\ idx = 2
  /\ jobs[1].Job.Steps = << RunStep(<<"e", "c", "h", "o", " ", "h", "e", "l", "l", "o">>), UsesStep(<<"d", "o", "c", "k", "e", "r", ":", "/", "/", "a", "l", "p", "i", "n", "e", ":", "l", "a", "t", "e", "s", "t">>) >>
  /\ InGroup(IneligibleJobs, 1)
  /\ ResultOf(1).Reasons = {"container-actions"}

(* C7 as claimed: HasServices is true if and only if the services field is *)
(* present and has at least one entry; absent and present-but-empty both   *)
(* give false.                                                             *)
C7_ServicesPresentAndNonEmpty ==
  \A i \in ScannedIDs :
    LET j == jobs[i].Job
    IN /\ HasServices(j) <=> (j.Services.kind = "map" /\ j.Services.keys /= {})
       /\ ~DeclaresOnlySlim(j) =>
            (("services" \in ResultOf(i).Reasons)
               <=> (j.Services.kind = "map" /\ j.Services.keys /= {}))

(* C7 amended: HasServices is true if and only if the services field is    *)
(* not nil: a job without the field gives false, and a job whose services  *)
(* mapping is present gives true whether or not it has entries; the        *)
(* contents are not inspected.                                             *)
C7_ServicesPresent ==
  \A i \in ScannedIDs :
    LET j == jobs[i].Job
    IN /\ HasServices(j) <=> j.Services.kind /= "nil"
       /\ ~DeclaresOnlySlim(j) =>
            (("services" \in ResultOf(i).Reasons) <=> j.Services.kind /= "nil")

\* a scanned job whose services mapping has no entries is in IneligibleJobs
\* for the services criterion alone
C7_Witness ==
  /\ idx = 2
  /\ jobs[1].Job.Services = MapVal({})
  /\ InGroup(IneligibleJobs, 1)
  /\ ResultOf(1).Reasons = {"services"}

\* the criteria a job violates, read off its fields and its duration data
ViolatedCriteria(j, d) ==
  (IF DeclaresLatest(j) THEN {} ELSE {"source-runner"})
  \cup (IF RunsDockerPattern(j) THEN {"docker-commands"} ELSE {})
  \cup (IF UsesReservedPrefix(j) THEN {"container-actions"} ELSE {})
  \cup (IF j.Services.kind = "nil" THEN {} ELSE {"services"})
  \cup (IF j.Container.kind = "nil" THEN {} ELSE {"container"})
  \cup (IF d.kind = "duration" /\ d.seconds >= 15 * 60 THEN {"duration"} ELSE {})

(* C8: the duration criterion is evaluated only on supplied data: a job    *)
(* with a supplied duration is disqualified by it exactly when the         *)
(* duration is 15 minutes or more, and a job without duration data is      *)
(* never disqualified by it, so that it is a candidate exactly when the    *)
(* five other criteria hold.                                               *)
C8_DurationOnlyWhenSupplied ==
  \A i \in ScannedIDs :
    LET j == jobs[i].Job
        d == jobs[i].Duration
    IN ~DeclaresOnlySlim(j) =>
         /\ ("duration" \in ResultOf(i).Reasons)
              <=> (d.kind = "duration" /\ d.seconds >= 15 * 60)
         /\ FiveCriteriaHold(j) =>
              (InGroup(Candidates, i) <=> (d.kind = "nil" \/ d.seconds < 15 * 60))
         /\ d.kind = "nil" => (InGroup(Candidates, i) <=> FiveCriteriaHold(j))

\* a scanned job that meets the five other criteria and last ran for
\* exactly 15 minutes is in IneligibleJobs for the duration criterion alone
C8_Witness ==
  /\ idx = 2
  /\ jobs[1].Duration = DurationVal(900)
  /\ FiveCriteriaHold(jobs[1].Job)
  /\ InGroup(IneligibleJobs, 1)
  /\ ResultOf(1).Reasons = {"duration"}

(* C9: for a job that is not AlreadyMigrated the recorded reasons are      *)
(* exactly the criteria the job violates, all of them, and the reasons are *)
(* empty if and only if the job is classified Eligible.                    *)
C9_ReasonsAreTheViolations ==
  \A i \in ScannedIDs :
    ~InGroup(AlreadySlimJobs, i) =>
      /\ ResultOf(i).Reasons = ViolatedCriteria(jobs[i].Job, jobs[i].Duration)
      /\ (ResultOf(i).Reasons = {}) <=> InGroup(Candidates, i)

\* a scanned job that violates all six criteria has all six recorded
C9_Witness ==
  /\ idx = 2
  /\ InGroup(IneligibleJobs, 1)
  /\ Cardinality(ViolatedCriteria(jobs[1].Job, jobs[1].Duration)) = 6
  /\ Cardinality(ResultOf(1).Reasons) = 6

\* the names of the groups that hold a job
GroupsOf(id) ==
  { g \in {"Candidates", "IneligibleJobs", "AlreadySlimJobs"} :
      InGroup(CASE g = "Candidates" -> Candidates
                [] g = "IneligibleJobs" -> IneligibleJobs
                [] g = "AlreadySlimJobs" -> AlreadySlimJobs, id) }

\* the group the definition of a job alone asks for
GroupFor(entry) ==
  IF DeclaresOnlySlim(entry.Job) THEN "AlreadySlimJobs"
  ELSE IF ViolatedCriteria(entry.Job, entry.Duration) = {} THEN "Candidates"
  ELSE "IneligibleJobs"

(* C10: in the scan of a workflow file every job passed is in exactly one  *)
(* of Candidates, IneligibleJobs and AlreadySlimJobs, once; the group of a *)
(* job follows from its own definition, whatever the other jobs of the     *)
(* file are; and the three sizes add up to the number of jobs passed,      *)
(* which is the number of jobs of the file when the scan ends.             *)
C10_ScanPartitionsJobs ==
  /\ \A i \in ScannedIDs : GroupsOf(i) = {GroupFor(jobs[i])}
  /\ \A k \in 1..Len(AllResults) : AllResults[k].JobID \in ScannedIDs
  /\ Len(Candidates) + Len(IneligibleJobs) + Len(AlreadySlimJobs) = idx - 1
  /\ idx <= Len(jobs) + 1
  /\ \A a, b \in ScannedIDs :
       (jobs[a].Job = jobs[b].Job /\ jobs[a].Duration = jobs[b].Duration) =>
         GroupsOf(a) = GroupsOf(b)

\* the scan of a file of three jobs has ended with one job in each group
C10_Witness ==
  /\ Len(jobs) = 3
  /\ idx = 4
  /\ Len(Candidates) = 1
  /\ Len(IneligibleJobs) = 1
  /\ Len(AlreadySlimJobs) = 1

----------------------------------------------------------------------------
(* Vocabulary of the properties about the command scanner.                 *)

\* the job the report is about
ReportedJob == jobs[report.JobID].Job

\* the shell texts of the steps of a job
RunTexts(j) == { j.Steps[k].Run : k \in 1..Len(j.Steps) }

\* the lines of a script that are scanned: trimmed, not empty, no comment
ScannedLines(script) ==
  { line \in { TrimSpace(l) : l \in Range(Split(script, <<"\n">>)) } :
      line /= <<>> /\ line[1] /= "#" }

\* the fragments the lines of a job are split into
Fragments(j) ==
  UNION { Range(splitCommandLine(line)) :
            line \in UNION { ScannedLines(run) : run \in RunTexts(j) } }

\* the basenames of the commands extracted from the fragments of a job
ExtractedBasenames(j) ==
  { normalizeCommand(extractCommandFromPart(p)) : p \in Fragments(j) } \ { <<>> }

(* C11: for a job on ubuntu-latest GetMissingCommands returns exactly the   *)
(* basenames that are extracted from some shell step of the job and are in *)
(* the table of missing commands, each of them once, however many steps    *)
(* and lines invoke it.                                                    *)
C11_MissingCommandsExactAndDistinct ==
  (report.done /\ DeclaresLatest(ReportedJob)) =>
    /\ Range(report.MissingCommands) = ExtractedBasenames(ReportedJob) \cap missingInSlim
    /\ \A a, b \in 1..Len(report.MissingCommands) :
         report.MissingCommands[a] = report.MissingCommands[b] => a = b

\* the report on a job whose two steps both run docker and make names each
\* of the two once
C11_Witness ==
  /\ report.done
  /\ ReportedJob.RunsOn = StringVal("ubuntu-latest")
  /\ ReportedJob.Steps =
       << RunStep(<<"d", "o", "c", "k", "e", "r", " ", "b", "u", "i", "l", "d", " ", ".", "\n", "m", "a", "k", "e">>), RunStep(<<"m", "a", "k", "e", ";", " ", "/", "u", "s", "r", "/", "l", "o", "c", "a", "l", "/", "b", "i", "n", "/", "d", "o", "c", "k", "e", "r", " ", "p", "s">>) >>
  /\ report.MissingCommands = << <<"d", "o", "c", "k", "e", "r">>, <<"m", "a", "k", "e">> >>

\* the tokens of a fragment
TokensOf(p) == Fields(p)

WrapperWords ==
  { <<"s", "u", "d", "o">>, <<"e", "n", "v">>, <<"t", "i", "m", "e">>, <<"n", "o", "h", "u", "p">>, <<"s", "e", "t", "s", "i", "d">>, <<"s", "t", "d", "b", "u", "f">> }

IsAssignment(token) == "=" \in Range(token)

\* the number of assignments a token list begins with
LeadingAssignments(f) ==
  CHOOSE a \in 0..Len(f) :
    /\ \A k \in 1..a : IsAssignment(f[k])
    /\ a = Len(f) \/ ~IsAssignment(f[a + 1])

\* the number of wrapper words that follow the first a tokens
LeadingWrappers(f, a) ==
  CHOOSE w \in 0..(Len(f) - a) :
    /\ \A k \in (a + 1)..(a + w) : f[k] \in WrapperWords
    /\ a + w = Len(f) \/ f[a + w + 1] \notin WrapperWords

\* the part of a token after its last "/"
Basename(token) ==
  LET slashes == { i \in 1..Len(token) : token[i] = "/" }
  IN IF slashes = {} THEN token
     ELSE SubSeq(token, (CHOOSE m \in slashes : \A i \in slashes : m >= i) + 1, Len(token))

(* C12: in every fragment the wrapper words sudo, env, time, nohup, setsid *)
(* and stdbuf are skipped from the front (after the leading assignments),  *)
(* however many are stacked; the command is the first remaining token and  *)
(* its basename is what normalizeCommand gives; a fragment of wrapper      *)
(* words alone yields no command.                                          *)
C12_WrappersSkippedGreedily ==
  report.done =>
    \A p \in Fragments(ReportedJob) :
      LET f == TokensOf(p)
          a == LeadingAssignments(f)
          w == LeadingWrappers(f, a)
      IN IF a + w < Len(f)
         THEN /\ extractCommandFromPart(p) = f[a + w + 1]
              /\ normalizeCommand(extractCommandFromPart(p)) = Basename(f[a + w + 1])
         ELSE extractCommandFromPart(p) = <<>>

\* the report on sudo env time /usr/bin/docker run x names docker
C12_Witness ==
  /\ report.done
  /\ ReportedJob.RunsOn = StringVal("ubuntu-latest")
  /\ ReportedJob.Steps = << RunStep(<<"s", "u", "d", "o", " ", "e", "n", "v", " ", "t", "i", "m", "e", " ", "/", "u", "s", "r", "/", "b", "i", "n", "/", "d", "o", "c", "k", "e", "r", " ", "r", "u", "n", " ", "x">>) >>
  /\ extractCommandFromPart(<<"s", "u", "d", "o", " ", "e", "n", "v", " ", "t", "i", "m", "e", " ", "/", "u", "s", "r", "/", "b", "i", "n", "/", "d", "o", "c", "k", "e", "r", " ", "r", "u", "n", " ", "x">>) = <<"/", "u", "s", "r", "/", "b", "i", "n", "/", "d", "o", "c", "k", "e", "r">>
  /\ report.MissingCommands = << <<"d", "o", "c", "k", "e", "r">> >>

(* C13: GetMissingCommands on a job whose fragments hold nothing but       *)
(* tokens with "=" returns nothing, whatever the table is; and in a        *)
(* fragment that begins with assignments the command is the token after    *)
(* them (when that token is no wrapper word).                              *)
C13_AssignmentsYieldNoCommand ==
  report.done =>
    /\ (\A p \in Fragments(ReportedJob) : \A k \in 1..Len(TokensOf(p)) :
          IsAssignment(TokensOf(p)[k]))
         => report.MissingCommands = <<>>
    /\ \A p \in Fragments(ReportedJob) :
         LET f == TokensOf(p)
             a == LeadingAssignments(f)
         IN (a < Len(f) /\ f[a + 1] \notin WrapperWords) =>
              extractCommandFromPart(p) = f[a + 1]

\* the report on FOO=bar BAZ=qux is empty under a table that lists both tokens
C13_Witness ==
  /\ report.done
  /\ ReportedJob.RunsOn = StringVal("ubuntu-latest")
  /\ ReportedJob.Steps = << RunStep(<<"F", "O", "O", "=", "b", "a", "r", " ", "B", "A", "Z", "=", "q", "u", "x">>) >>
  /\ <<"F", "O", "O", "=", "b", "a", "r">> \in missingInSlim
  /\ <<"B", "A", "Z", "=", "q", "u", "x">> \in missingInSlim
  /\ report.MissingCommands = <<>>

(* C14: for a job that does not run on ubuntu-latest (a nil runner spec,   *)
(* ubuntu-slim, another label) GetMissingCommands returns nothing, also    *)
(* when its shell steps invoke commands of the table.                      *)
C14_OtherRunnersNotScanned ==
  (report.done /\ ~DeclaresLatest(ReportedJob)) => report.MissingCommands = <<>>

\* the report on a job on ubuntu-22.04 that runs sudo docker build is empty
\* though docker is in the table
C14_Witness ==
  /\ report.done
  /\ ReportedJob.RunsOn = StringVal("ubuntu-22.04")
  /\ ReportedJob.Steps = << RunStep(<<"s", "u", "d", "o", " ", "d", "o", "c", "k", "e", "r", " ", "b", "u", "i", "l", "d", " ", "-", "t", " ", "a", "p", "p", " ", ".">>) >>
  /\ <<"d", "o", "c", "k", "e", "r">> \in missingInSlim
  /\ report.MissingCommands = <<>>

(* C15: HasContainerActions flags a job only for a step whose uses value   *)
(* begins with docker:// or with docker/; a reference to another           *)
(* organization, also one whose name begins with the letters docker, and   *)
(* an empty uses value are never flagged.                                  *)
C15_OnlyContainerActionsFlagged ==
  \A i \in ScannedIDs :
    LET j == jobs[i].Job
        container == \E k \in 1..Len(j.Steps) :
                       \/ HasPrefix(j.Steps[k].Uses, <<"d", "o", "c", "k", "e", "r", ":", "/", "/">>)
                       \/ HasPrefix(j.Steps[k].Uses, <<"d", "o", "c", "k", "e", "r", "/">>)
    IN /\ HasContainerActions(j) => container
       /\ ~DeclaresOnlySlim(j) =>
            ("container-actions" \in ResultOf(i).Reasons => container)

\* the operators a line is split at
Operators ==
  { <<"|">>, <<"&", "&">>, <<"|", "|">>, <<";">>, <<">">>, <<">", ">">>, <<"<">>, <<"<", "<">> }

OccursIn(s, lit) == \E i \in 1..Len(s) : LitAt(s, i, lit)

\* the parts from part k on occur in line one after the other, from position from on
RECURSIVE InOrderFrom(_, _, _, _)
InOrderFrom(parts, k, line, from) ==
  IF k > Len(parts) THEN TRUE
  ELSE \E i \in from..Len(line) :
         /\ LitAt(line, i, parts[k])
         /\ InOrderFrom(parts, k + 1, line, i + Len(parts[k]))

\* the separators with the two-character ones first
SeparatorsDoubleFirst ==
  << <<"&", "&">>, <<"|", "|">>, <<">", ">">>, <<"<", "<">>, <<"|">>, <<";">>, <<">">>, <<"<">> >>

(* C16: splitCommandLine returns the fragments of a line in their order in *)
(* the line; every fragment is non-empty, begins and ends with no          *)
(* whitespace and holds none of |, &&, ||, ;, >, >>, <, <<; a line without *)
(* operator comes back as one fragment; and splitting at the two-character *)
(* operators before the pipe gives the same fragments.                     *)
C16_FragmentsCleanAndOrdered ==
  report.done =>
    \A line \in UNION { ScannedLines(run) : run \in RunTexts(ReportedJob) } :
      LET parts == splitCommandLine(line)
      IN /\ \A p \in 1..Len(parts) :
              /\ parts[p] /= <<>>
              /\ parts[p][1] \notin WhiteSpace
              /\ parts[p][Len(parts[p])] \notin WhiteSpace
              /\ \A op \in Operators : ~OccursIn(parts[p], op)
         /\ InOrderFrom(parts, 1, line, 1)
         /\ (\A op \in Operators : ~OccursIn(line, op)) => parts = << line >>
         /\ parts = SplitBySeparators(<< line >>, SeparatorsDoubleFirst, 1)

\* the line echo a >> out.txt 2>&1 || exit 1 of a reported job is split
\* into four fragments
C16_Witness ==
  /\ report.done
  /\ ReportedJob.Steps = << RunStep(<<"e", "c", "h", "o", " ", "a", " ", ">", ">", " ", "o", "u", "t", ".", "t", "x", "t", " ", "2", ">", "&", "1", " ", "|", "|", " ", "e", "x", "i", "t", " ", "1">>) >>
  /\ splitCommandLine(<<"e", "c", "h", "o", " ", "a", " ", ">", ">", " ", "o", "u", "t", ".", "t", "x", "t", " ", "2", ">", "&", "1", " ", "|", "|", " ", "e", "x", "i", "t", " ", "1">>)
       = << <<"e", "c", "h", "o", " ", "a">>, <<"o", "u", "t", ".", "t", "x", "t", " ", "2">>, <<"&", "1">>, <<"e", "x", "i", "t", " ", "1">> >>

(* C17: the command extractCommandFromPart returns for a fragment is empty *)
(* or a token that holds no "=" and is none of the wrapper words, also     *)
(* when assignments and wrapper words are interleaved.                     *)
C17_CommandIsNoAssignmentNoWrapper ==
  report.done =>
    \A p \in Fragments(ReportedJob) :
      LET cmd == extractCommandFromPart(p)
      IN \/ cmd = <<>>
         \/ ~IsAssignment(cmd) /\ cmd \notin WrapperWords

====
